---------------------------- MODULE Spec2Model ----------------------------
(***************************************************************************)
(* BluePyEfe: the Cell class (bluepyefe/cell.py) and the SineSpec eCode    *)
(* (bluepyefe/ecode/sineSpec.py) as a state machine.                       *)
(*                                                                         *)
(* Representation of Python values:                                        *)
(*   - an optional value is a set with at most one element: None is {}     *)
(*     and a value x is {x};                                               *)
(*   - a dict is a function whose DOMAIN is the set of its keys, so a key  *)
(*     can be absent, present with None, or present with a value;          *)
(*   - a float quotient a / b is kept exact as the pair <<a, b>>;          *)
(*   - a file name is the sequence of its tokens, a format marker such as  *)
(*     ".abf" being one token, so that the substring test `".abf" in name` *)
(*     is token membership and the suffix is the last token;               *)
(*   - a time vector is its length n and its step dt, t[i] = i * dt;       *)
(*   - a current trace is its baseline and the maximum of its smoothing;   *)
(*   - a voltage trace is the sequence of its peaks, each a time and a     *)
(*     height.                                                             *)
(***************************************************************************)
EXTENDS Integers, Sequences, FiniteSets, TLC

VARIABLES recordings, rheobase, efel, last, calls, dispatch, sine

vars == <<recordings, rheobase, efel, last, calls, dispatch, sine>>

None == {}
Some(x) == {x}
Val(o) == CHOOSE x \in o : TRUE

\* `"k" in d and d["k"] is not None`
Has(d, k) == k \in DOMAIN d /\ d[k] # None

RECURSIVE Contains(_, _)
Contains(tok, name) ==
    IF name = <<>> THEN FALSE
    ELSE IF Head(name) = tok THEN TRUE ELSE Contains(tok, Tail(name))

(***************************************************************************)
(* Cell.reader: the reader dispatch.  The result names the reader that was *)
(* called, or the exception that left the method.                          *)
(***************************************************************************)
Unbound == [bound |-> FALSE, val |-> None]

\* lines 53-56: filename stays an unbound local when neither key is present
Filename(config_data) ==
    IF "v_file" \in DOMAIN config_data
        THEN [bound |-> TRUE, val |-> config_data["v_file"]]
    ELSE IF "filepath" \in DOMAIN config_data
        THEN [bound |-> TRUE, val |-> config_data["filepath"]]
    ELSE Unbound

reader(config_data, recording_reader) ==
    LET filename == Filename(config_data) IN
    IF recording_reader THEN "recording_reader"
    ELSE IF ~filename.bound THEN "UnboundLocalError"
    ELSE IF filename.val = None THEN "TypeError"
    ELSE IF Contains(".abf", Val(filename.val)) THEN "axon_reader"
    ELSE IF Contains(".ibw", Val(filename.val)) THEN "igor_reader"
    ELSE IF Contains(".nwb", Val(filename.val)) THEN "nwb_reader_BBP"
    ELSE "Exception"

ReaderNames == {"recording_reader", "axon_reader", "igor_reader", "nwb_reader_BBP"}

(***************************************************************************)
(* SineSpec.interpret                                                      *)
(***************************************************************************)
TonFallback == 150
ToffFallback == 5100

\* Python 3 round(n / d) for d > 0: to nearest, ties to the even integer
PyRound(n, d) ==
    LET q == n \div d
        r == n % d
    IN  IF 2 * r < d THEN q
        ELSE IF 2 * r > d THEN q + 1
        ELSE IF q % 2 = 0 THEN q ELSE q + 1

\* t[i] on a sequence of length t.n: negative indices count from the end
InRange(t, i) == -t.n <= i /\ i < t.n
At(t, i) == IF i >= 0 THEN i * t.dt ELSE (t.n + i) * t.dt

\* tools.base_current / max of tools.scipy_signal2d on the abstract trace
base_current(current) == current.base
MaxSmooth(current) == current.max

\* lines 87-103: the sample indices of ton and toff before conversion
TonIndex(config_data, dt) ==
    LET first == IF Has(config_data, "ton")
                 THEN Some(PyRound(Val(config_data["ton"]), dt))
                 ELSE Some(TonFallback)
    IN  IF Has(config_data, "toff") THEN first ELSE Some(ToffFallback)

ToffIndex(config_data, dt) ==
    IF Has(config_data, "toff")
    THEN Some(PyRound(Val(config_data["toff"]), dt))
    ELSE None

\* lines 105-112
Hypamp(current, config_data, reader_data) ==
    IF Has(config_data, "hypamp") THEN Val(config_data["hypamp"])
    ELSE IF Has(reader_data, "hypamp") THEN Val(reader_data["hypamp"])
    ELSE base_current(current)

\* lines 114-120
Amp(current, config_data, reader_data) ==
    IF Has(config_data, "amp") THEN Val(config_data["amp"])
    ELSE IF Has(reader_data, "amp") THEN Val(reader_data["amp"])
    ELSE MaxSmooth(current) - Hypamp(current, config_data, reader_data)

\* a variant of line 125 that leaves tend in samples
TendInSamples(t, dt) == t.n

\* line 125
Tend(t, dt) == t.n * dt

NoParams ==
    [ton |-> None, toff |-> None, tend |-> None, amp |-> None,
     hypamp |-> None, dt |-> None]

Raise(e) == [exc |-> e, params |-> NoParams]

interpret(t, current, config_data, reader_data) ==
    IF t.n < 2 THEN Raise("IndexError")                        \* line 82
    ELSE
    LET dt == At(t, 1)
        ton == TonIndex(config_data, dt)
        toff == ToffIndex(config_data, dt)
    IN  IF ~InRange(t, Val(ton)) THEN Raise("IndexError")      \* line 123
        ELSE IF toff = None THEN Raise("TypeError")            \* line 124
        ELSE IF ~InRange(t, Val(toff)) THEN Raise("IndexError")
        ELSE [exc |-> "none",
              params |->
                [ton |-> Some(At(t, Val(ton))),
                 toff |-> Some(At(t, Val(toff))),
                 tend |-> Some(Tend(t, dt)),
                 amp |-> Some(Amp(current, config_data, reader_data)),
                 hypamp |-> Some(Hypamp(current, config_data, reader_data)),
                 dt |-> Some(dt)]]


(***************************************************************************)
(* Recording.__init__ and SineSpec.__init__                                *)
(***************************************************************************)
NoFeatures == [f \in {} |-> None]

\* the fields the Recording base class sets before the variant's own
Recording(config_data, reader_data, protocol_name) ==
    [protocol_name |-> protocol_name,
     voltage |-> reader_data["voltage"],
     spikecount |-> None,
     efeatures |-> NoFeatures]

SineSpec(config_data, reader_data, protocol_name) ==
    LET base == Recording(config_data, reader_data, protocol_name)
        t == reader_data["t"]
        current == reader_data["current"]
        res == IF t # None /\ current # None
               THEN interpret(Val(t), Val(current), config_data, reader_data)
               ELSE [exc |-> "none", params |-> NoParams]
    IN  [exc |-> res.exc,
         obj |-> [protocol_name |-> base.protocol_name,
                  voltage |-> base.voltage,
                  spikecount |-> base.spikecount,
                  efeatures |-> base.efeatures,
                  ton |-> res.params.ton,
                  toff |-> res.params.toff,
                  tend |-> res.params.tend,
                  amp |-> res.params.amp,
                  hypamp |-> res.params.hypamp,
                  dt |-> res.params.dt,
                  amp_rel |-> None,
                  hypamp_rel |-> None]]

\* SineSpec.compute_relative_amp: 100.0 * x / amp_threshold, kept exact
Relative(x, amp_threshold) == <<100 * x, amp_threshold>>

compute_relative_amp(rec, amp_threshold) ==
    [rec EXCEPT !.amp_rel = Some(Relative(Val(rec.amp), amp_threshold)),
                !.hypamp_rel = Some(Relative(Val(rec.hypamp), amp_threshold))]

(***************************************************************************)
(* The eCode registry and str.lower on the protocol names of the model     *)
(***************************************************************************)
eCodes == {"sinespec"}

Lower(name) ==
    CASE name = "SineSpec" -> "sinespec"
      [] name = "sinespec" -> "sinespec"
      [] name = "Unknown" -> "unknown"

(***************************************************************************)
(* The feature engine (efel), a deterministic function of the trace, the   *)
(* window and its process-wide settings.  A peak is detected when it is    *)
(* above the threshold and, under strict_stiminterval, inside the window.  *)
(* peak_time is always a sequence (empty without peaks); any other feature *)
(* is None when no peak is detected.                                       *)
(***************************************************************************)
Detected(voltage, stim_start, stim_end, settings) ==
    SelectSeq(voltage,
              LAMBDA p : /\ p.v > settings.threshold
                         /\ settings.strict_stiminterval =>
                                (stim_start <= p.t /\ p.t <= stim_end))

\* one feature of getFeatureValues: a sequence of numbers, or None
FeatureValue(f, voltage, stim_start, stim_end, settings) ==
    LET peaks == Detected(voltage, stim_start, stim_end, settings) IN
    IF f = "peak_time"
        THEN Some([i \in 1..Len(peaks) |-> peaks[i].t])
    ELSE IF peaks = <<>> THEN None
    ELSE Some([i \in 1..Len(peaks) |-> peaks[i].v])

RECURSIVE SeqSum(_)
SeqSum(s) == IF s = <<>> THEN 0 ELSE Head(s) + SeqSum(Tail(s))

\* numpy.nanmean of a feature value: nan ({}) for None and for no entries
nan == {}
nanmean(f) ==
    IF f = None \/ Val(f) = <<>> THEN nan
    ELSE Some(<<SeqSum(Val(f)), Len(Val(f))>>)


Range(s) == {s[i] : i \in DOMAIN s}

\* the feature engine's answer for one trace: feature name -> sequence or None
getFeatureValues(voltage, stim_start, stim_end, features, settings) ==
    [f \in Range(features) |->
        FeatureValue(f, voltage, stim_start, stim_end, settings)]

(***************************************************************************)
(* Cell.efeatures_from_recording.  The requested efeatures are an ordered  *)
(* dict: a sequence of [name, window], a window being None, [] or          *)
(* [start, end].  The result is the recording, the engine settings and the *)
(* engine calls made.                                                      *)
(***************************************************************************)
NoWindow(window) == window.isNone \/ window.w = <<>>

RECURSIVE RemoveFirst(_, _)
RemoveFirst(s, x) ==
    IF s = <<>> THEN <<>>
    ELSE IF Head(s) = x THEN Tail(s)
    ELSE <<Head(s)>> \o RemoveFirst(Tail(s), x)

\* lines 132-136
EfelEfeatures(efeatures) ==
    LET plain == SelectSeq(efeatures, LAMBDA e : NoWindow(e.window))
    IN  [i \in 1..Len(plain) |-> plain[i].name] \o <<"peak_time">>

Store(ef, f, v) == [k \in DOMAIN ef \cup {f} |-> IF k = f THEN v ELSE ef[k]]

\* a variant of line 142 that adds to the count already stored
SpikecountAdded(recording, peak_time) ==
    Some(Len(Val(peak_time))
         + (IF recording.spikecount = None THEN 0
            ELSE Val(recording.spikecount)))

\* line 142
Spikecount(recording, peak_time) == Some(Len(Val(peak_time)))

\* lines 145-152
RECURSIVE StorePlain(_, _, _)
StorePlain(ef, names, fel_vals) ==
    IF names = <<>> THEN ef
    ELSE StorePlain(Store(ef, Head(names), nanmean(fel_vals[Head(names)])),
                    Tail(names), fel_vals)

\* lines 154-168: one single-feature pass per feature that carries a window
RECURSIVE CustomPasses(_, _, _, _)
CustomPasses(acc, efeatures, voltage, settings) ==
    IF efeatures = <<>> THEN acc
    ELSE LET e == Head(efeatures) IN
         IF NoWindow(e.window)
         THEN CustomPasses(acc, Tail(efeatures), voltage, settings)
         ELSE LET fel_vals == getFeatureValues(voltage, e.window.w[1],
                                               e.window.w[2], <<e.name>>,
                                               settings)
                  value == IF fel_vals[e.name] # None
                           THEN nanmean(fel_vals[e.name])
                           ELSE nan
              IN  CustomPasses(
                    [ef |-> Store(acc.ef, e.name, value),
                     calls |-> Append(acc.calls,
                                 [features |-> <<e.name>>,
                                  stim_start |-> e.window.w[1],
                                  stim_end |-> e.window.w[2],
                                  settings |-> settings])],
                    Tail(efeatures), voltage, settings)

efeatures_from_recording(recording, efeatures, settings0) ==
    LET settings == [settings0 EXCEPT !.stimulus_current = recording.amp]
        efel_efeatures == EfelEfeatures(efeatures)
        ton == Val(recording.ton)
        toff == Val(recording.toff)
        fel_vals == getFeatureValues(recording.voltage, ton, toff,
                                     efel_efeatures, settings)
        first == [features |-> efel_efeatures, stim_start |-> ton,
                  stim_end |-> toff, settings |-> settings]
        plain == StorePlain(recording.efeatures,
                            RemoveFirst(efel_efeatures, "peak_time"), fel_vals)
        done == CustomPasses([ef |-> plain, calls |-> <<first>>], efeatures,
                             recording.voltage, settings)
    IN  [rec |-> [recording EXCEPT
                    !.spikecount = Spikecount(recording, fel_vals["peak_time"]),
                    !.efeatures = done.ef],
         efel |-> settings,
         calls |-> done.calls]

\* lines 82-87
get_recordings_id_by_protocol_name(recs, protocol_name) ==
    {i \in 1..Len(recs) : recs[i].protocol_name = protocol_name}

\* a variant of lines 179-180 that forwards the threshold only
ConfigureThresholdOnly(settings, ap_threshold, strict_stim) ==
    [settings EXCEPT !.threshold = ap_threshold]

\* lines 179-180
Configure(settings, ap_threshold, strict_stim) ==
    [settings EXCEPT !.threshold = ap_threshold,
                     !.strict_stiminterval = strict_stim]

\* lines 182-185, recording i onwards
RECURSIVE ExtractLoop(_, _, _, _)
ExtractLoop(st, i, protocol_name, efeatures) ==
    IF i > Len(st.recs) THEN st
    ELSE IF i \notin get_recordings_id_by_protocol_name(st.recs, protocol_name)
    THEN ExtractLoop(st, i + 1, protocol_name, efeatures)
    ELSE LET r == efeatures_from_recording(st.recs[i], efeatures, st.efel)
         IN  ExtractLoop(
               [recs |-> [st.recs EXCEPT ![i] = r.rec],
                efel |-> r.efel,
                calls |-> st.calls \o
                          [k \in 1..Len(r.calls) |->
                              [rec |-> i, call |-> r.calls[k]]]],
               i + 1, protocol_name, efeatures)

extract_efeatures(recs, settings, protocol_name, efeatures, threshold, strict) ==
    ExtractLoop([recs |-> recs,
                 efel |-> Configure(settings, threshold, strict),
                 calls |-> <<>>],
                1, protocol_name, efeatures)

(***************************************************************************)
(* Cell.compute_rheobase and Cell.compute_relative_amp                     *)
(***************************************************************************)
Min(S) == CHOOSE x \in S : \A y \in S : x <= y

\* lines 195-206: the indices whose amp is collected
Spiking(recs, protocols_rheobase) ==
    {i \in 1..Len(recs) :
        /\ recs[i].protocol_name \in protocols_rheobase
        /\ recs[i].spikecount # None
        /\ Val(recs[i].spikecount) > 0}

Amps(recs, protocols_rheobase) ==
    {Val(recs[i].amp) : i \in Spiking(recs, protocols_rheobase)}

\* a variant of lines 208-209 that takes numpy.argmin for numpy.min: the
\* 0-based position, in the list of collected amps, of the first minimum
compute_rheobase_argmin(recs, old, protocols_rheobase) ==
    LET S == Spiking(recs, protocols_rheobase)
        m == Min(Amps(recs, protocols_rheobase))
        first == Min({i \in S : Val(recs[i].amp) = m})
    IN  IF S # {}
        THEN Some(Cardinality({j \in S : j < first}))
        ELSE old

\* lines 208-209
compute_rheobase(recs, old, protocols_rheobase) ==
    IF Amps(recs, protocols_rheobase) # {}
    THEN Some(Min(Amps(recs, protocols_rheobase)))
    ELSE old

\* line 199, amplitudes being integers here: amp < 0.01
LowAmp(amp) == amp <= 0

\* line 217: rheobase in (0.0, None, False, numpy.nan)
Degenerate(r) == r = None \/ Val(r) = 0

RelativeAll(recs, r) ==
    [i \in 1..Len(recs) |-> compute_relative_amp(recs[i], Val(r))]


(***************************************************************************)
(* Cell.read_recordings.  yields[i] is what the reader returns for the     *)
(* i-th metadata entry.  The state threaded through the loops is the list  *)
(* of recordings and the exception that ended the call ("none" if none).   *)
(***************************************************************************)
\* lines 100-111, raw record j onwards of one file
RECURSIVE ReadRecords(_, _, _, _, _)
ReadRecords(st, config_data, reader_datas, j, protocol_name) ==
    IF st.exc # "none" \/ j > Len(reader_datas) THEN st
    ELSE IF Lower(protocol_name) \in eCodes
    THEN LET rec == SineSpec(config_data, reader_datas[j], protocol_name) IN
         IF rec.exc # "none" THEN [st EXCEPT !.exc = rec.exc]
         ELSE ReadRecords([st EXCEPT !.recs = Append(@, rec.obj)],
                          config_data, reader_datas, j + 1, protocol_name)
    ELSE [st EXCEPT !.exc = "KeyError"]

\* lines 97-98, metadata entry i onwards
RECURSIVE ReadFiles(_, _, _, _, _, _)
ReadFiles(st, protocol_data, i, protocol_name, recording_reader, yields) ==
    IF st.exc # "none" \/ i > Len(protocol_data) THEN st
    ELSE LET which == reader(protocol_data[i], recording_reader) IN
         IF which \notin ReaderNames THEN [st EXCEPT !.exc = which]
         ELSE ReadFiles(ReadRecords(st, protocol_data[i], yields[i], 1,
                                    protocol_name),
                        protocol_data, i + 1, protocol_name, recording_reader,
                        yields)

read_recordings(recs, protocol_data, protocol_name, recording_reader, yields) ==
    ReadFiles([recs |-> recs, exc |-> "none"], protocol_data, 1,
              protocol_name, recording_reader, yields)

(***************************************************************************)
(* Inputs of the model.  Every raw record read into a Cell carries a time  *)
(* vector and a current trace, so every recording of the Cell has been     *)
(* interpreted; SpecSine also constructs recordings without them.          *)
(***************************************************************************)
MaxRecordings == 2

ProtocolNames == {"SineSpec", "sinespec", "Unknown"}
Registered == {n \in ProtocolNames : Lower(n) \in eCodes}

Trace == Some([n |-> 6, dt |-> 1])

cfgA == [v_file |-> Some(<<"cellA", ".abf">>), ton |-> Some(1),
         toff |-> Some(3), amp |-> Some(2), hypamp |-> Some(0)]
cfgB == [filepath |-> Some(<<"cellB", ".nwb">>), ton |-> Some(0),
         toff |-> Some(4), amp |-> None]
cfgC == [v_file |-> Some(<<"cellC", ".txt">>), ton |-> Some(1)]
cfgD == [ton |-> Some(0), toff |-> Some(2)]

rdHigh == [t |-> Trace, current |-> Some([base |-> 0, max |-> 2]),
           voltage |-> <<[t |-> 2, v |-> 20]>>]
rdLow == [t |-> Trace, current |-> Some([base |-> -1, max |-> -1]),
          voltage |-> <<[t |-> 2, v |-> 0], [t |-> 5, v |-> 20]>>]
rdNeg == [t |-> Trace, current |-> Some([base |-> 0, max |-> 0]),
          voltage |-> <<[t |-> 1, v |-> 0]>>, amp |-> Some(-1),
          hypamp |-> Some(1)]

ReadCall(protocol_data, protocol_name, recording_reader, yields) ==
    [protocol_data |-> protocol_data, protocol_name |-> protocol_name,
     recording_reader |-> recording_reader, yields |-> yields]

ReadCalls ==
    {ReadCall(<<cfgA>>, "SineSpec", FALSE, <<<<rdHigh>>>>),
     ReadCall(<<cfgB>>, "sinespec", FALSE, <<<<rdLow>>>>),
     ReadCall(<<cfgB>>, "SineSpec", TRUE, <<<<rdNeg>>>>),
     ReadCall(<<cfgA, cfgB>>, "SineSpec", FALSE, <<<<rdHigh>>, <<rdNeg>>>>),
     ReadCall(<<cfgA>>, "SineSpec", FALSE, <<<<>>>>),
     ReadCall(<<>>, "Unknown", FALSE, <<>>),
     ReadCall(<<cfgA>>, "Unknown", FALSE, <<<<>>>>),
     ReadCall(<<cfgA>>, "Unknown", FALSE, <<<<rdHigh>>>>),
     ReadCall(<<cfgC>>, "Unknown", FALSE, <<<<rdHigh>>>>),
     ReadCall(<<cfgC>>, "SineSpec", TRUE, <<<<rdHigh>>>>),
     ReadCall(<<cfgD>>, "SineSpec", FALSE, <<<<rdHigh>>>>),
     ReadCall(<<cfgA, cfgC>>, "SineSpec", TRUE, <<<<rdHigh>>, <<rdLow>>>>)}

WNone == [isNone |-> TRUE, w |-> <<>>]
WEmpty == [isNone |-> FALSE, w |-> <<>>]
Window(a, b) == [isNone |-> FALSE, w |-> <<a, b>>]

MixedRequest ==
    <<[name |-> "AP_amplitude", window |-> WNone],
      [name |-> "peak_time", window |-> Window(4, 5)]>>
Requests ==
    {<<[name |-> "peak_time", window |-> WEmpty],
       [name |-> "AP_amplitude", window |-> Window(0, 1)]>>,
     MixedRequest}

Thresholds == {-20, 10}

FileNames ==
    {<<"cell", ".abf">>, <<"cell", ".ibw">>, <<"cell", ".nwb">>,
     <<"cell", ".txt">>, <<"cell">>, <<"run", ".abf", "/", "cell", ".nwb">>,
     <<"cell", ".ibw", ".bak">>, <<"run", ".nwb", "/", "cell", ".ibw">>}
FileValues == {None} \cup {Some(n) : n \in FileNames}
ReaderConfigs ==
    UNION {[D -> FileValues] : D \in SUBSET {"v_file", "filepath"}}

SineValues(k) ==
    CASE k = "ton" -> {None, Some(-1), Some(0), Some(1), Some(3)}
      [] k = "toff" -> {None, Some(-1), Some(0), Some(1), Some(3), Some(4)}
      [] k = "amp" -> {None, Some(2)}
      [] k = "hypamp" -> {None, Some(-1)}
SineConfigs ==
    UNION {{c \in [D -> {None} \cup {Some(x) : x \in -1..4}] :
               \A k \in D : c[k] \in SineValues(k)} :
           D \in SUBSET {"ton", "toff", "amp", "hypamp"}}

SineTraces ==
    {None, Some([n |-> 1, dt |-> 1]), Some([n |-> 6, dt |-> 1]),
     Some([n |-> 3, dt |-> 2]), Some([n |-> 5200, dt |-> 1])}
SineReaderDatas ==
    {[t |-> t, current |-> c, voltage |-> <<>>] :
        t \in SineTraces, c \in {None, Some([base |-> 1, max |-> 4])}}
    \cup
    {[t |-> t, current |-> Some([base |-> 1, max |-> 4]), voltage |-> <<>>,
      amp |-> a, hypamp |-> h] :
        t \in SineTraces, a \in {None, Some(3)}, h \in {None, Some(0)}}

(***************************************************************************)
(* State.  last is the call that led to the state and how it ended (args   *)
(* are kept for extract_efeatures, to tell a repeated call); calls are the *)
(* engine calls that call made; dispatch and sine hold the last reader     *)
(* dispatch and the SineSpec construction made on their own.               *)
(***************************************************************************)
NoCall ==
    [op |-> "none", args |-> <<>>, exc |-> "none", warn |-> FALSE,
     rerun |-> FALSE]

NoDispatch == [called |-> FALSE]
NoSine == [called |-> FALSE]

Init ==
    /\ recordings = <<>>                                    \* cell.py line 48
    /\ rheobase = None                                      \* cell.py line 49
    /\ efel = [threshold |-> -20, strict_stiminterval |-> FALSE,
               stimulus_current |-> None]
    /\ last = NoCall
    /\ calls = <<>>
    /\ dispatch = NoDispatch
    /\ sine = NoSine

ReadRecordingsCall(c) ==
    LET r == read_recordings(recordings, c.protocol_data, c.protocol_name,
                             c.recording_reader, c.yields)
    IN  /\ Len(r.recs) <= MaxRecordings
        /\ recordings' = r.recs
        /\ last' = [NoCall EXCEPT !.op = "read_recordings", !.exc = r.exc]
        /\ calls' = <<>>
        /\ UNCHANGED <<rheobase, efel, dispatch, sine>>

ReadRecordings == \E c \in ReadCalls : ReadRecordingsCall(c)

ExtractEfeaturesCall(protocol_name, efeatures, ap_threshold, strict_stim) ==
    LET r == extract_efeatures(recordings, efel, protocol_name, efeatures,
                               ap_threshold, strict_stim)
        call == [NoCall EXCEPT
                   !.op = "extract_efeatures",
                   !.args = <<protocol_name, efeatures, ap_threshold,
                              strict_stim>>]
    IN  /\ recordings' = r.recs
        /\ efel' = r.efel
        /\ calls' = r.calls
        /\ last' = [call EXCEPT
                      !.rerun = (last.op = "extract_efeatures"
                                 /\ last.args = call.args)]
        /\ UNCHANGED <<rheobase, dispatch, sine>>

\* extract_efeatures with its default strict_stim=True
ExtractEfeatures ==
    \E protocol_name \in Registered, ap_threshold \in Thresholds :
        ExtractEfeaturesCall(protocol_name, MixedRequest, ap_threshold, TRUE)

ComputeRheobaseCall(protocols_rheobase) ==
    /\ rheobase' = compute_rheobase(recordings, rheobase, protocols_rheobase)
    /\ last' = [NoCall EXCEPT
                  !.op = "compute_rheobase",
                  !.warn = \E a \in Amps(recordings, protocols_rheobase) :
                              LowAmp(a)]
    /\ calls' = <<>>
    /\ UNCHANGED <<recordings, efel, dispatch, sine>>

ComputeRheobase ==
    \E protocols_rheobase \in SUBSET Registered :
        ComputeRheobaseCall(protocols_rheobase)

ComputeRelativeAmp ==
    /\ IF ~Degenerate(rheobase)
       THEN /\ recordings' = RelativeAll(recordings, rheobase)
            /\ rheobase' = rheobase
            /\ last' = [NoCall EXCEPT !.op = "compute_relative_amp"]
       ELSE /\ recordings' = recordings
            /\ rheobase' = None
            /\ last' = [NoCall EXCEPT !.op = "compute_relative_amp",
                                      !.warn = TRUE]
    /\ calls' = <<>>
    /\ UNCHANGED <<efel, dispatch, sine>>

Next ==
    \/ ReadRecordings
    \/ ExtractEfeatures
    \/ ComputeRheobase
    \/ ComputeRelativeAmp

Spec == Init /\ [][Next]_vars

\* reading and feature extraction alone, over every request and setting
ExtractAny ==
    \E protocol_name \in Registered, efeatures \in Requests,
       ap_threshold \in Thresholds, strict_stim \in BOOLEAN :
        ExtractEfeaturesCall(protocol_name, efeatures, ap_threshold,
                             strict_stim)

ReadTraces ==
    \E c \in {d \in ReadCalls : d.protocol_name \in Registered
                                 /\ d.protocol_data[1] # cfgC
                                 /\ d.protocol_data[1] # cfgD} :
        ReadRecordingsCall(c)

NextExtract ==
    \/ ReadTraces
    \/ ExtractAny

SpecExtract == Init /\ [][NextExtract]_vars

\* Cell.reader on its own, over every shape of per-file metadata
Dispatch ==
    \E config_data \in ReaderConfigs, recording_reader \in BOOLEAN :
        /\ dispatch' = [called |-> TRUE, config_data |-> config_data,
                        recording_reader |-> recording_reader,
                        result |-> reader(config_data, recording_reader)]
        /\ UNCHANGED <<recordings, rheobase, efel, last, calls, sine>>

SpecReader == Init /\ [][Dispatch]_vars

\* SineSpec(config_data, reader_data) on its own: one construction per object
Construct ==
    \E config_data \in SineConfigs, reader_data \in SineReaderDatas :
        /\ ~sine.called
        /\ sine' = [called |-> TRUE, config_data |-> config_data,
                    reader_data |-> reader_data,
                    result |-> SineSpec(config_data, reader_data, "SineSpec")]
        /\ UNCHANGED <<recordings, rheobase, efel, last, calls, dispatch>>

SpecSine == Init /\ [][Construct]_vars

(***************************************************************************)
(* Properties                                                              *)
(***************************************************************************)
Indices == 1..Len(recordings)

\* C1: after compute_rheobase(P), rheobase is the minimum amp over the
\* recordings of a protocol in P with spikecount not None and > 0, and is
\* None when there is no such recording.
C1_RheobaseIsMinOrNone ==
    [][\A P \in SUBSET Registered :
         ComputeRheobaseCall(P) =>
           LET S == {i \in Indices :
                       /\ recordings[i].protocol_name \in P
                       /\ recordings[i].spikecount # None
                       /\ \E n \in recordings[i].spikecount : n > 0}
           IN  IF S = {}
               THEN rheobase' = None
               ELSE \E i \in S :
                      /\ rheobase' = recordings[i].amp
                      /\ \A j \in S : Val(recordings[i].amp)
                                        <= Val(recordings[j].amp)]_vars

\* C2: in every reachable state rheobase is None or strictly positive.
C2_RheobasePositive == rheobase = None \/ Val(rheobase) > 0

\* C2 as amended: rheobase is None or the amp of one of the cell's recordings
\* whose spikes have been counted, whatever the sign of that amp; and it is
\* not zero in the state compute_relative_amp leaves.
C2_RheobaseIsRecordedAmp ==
    /\ rheobase # None =>
         \E i \in Indices : /\ recordings[i].spikecount # None
                            /\ recordings[i].amp = rheobase
    /\ last.op = "compute_relative_amp" =>
         (rheobase = None \/ Val(rheobase) # 0)

C2_NegativeRheobase ==
    /\ last.op = "compute_rheobase"
    /\ rheobase # None
    /\ Val(rheobase) < 0
    /\ \E i \in Indices : Val(recordings[i].amp) > 0

\* C3: compute_relative_amp with a defined positive rheobase gives every
\* recording amp_rel = 100*amp/rheobase and hypamp_rel = 100*hypamp/rheobase;
\* otherwise it touches no recording, sets rheobase to None, warns, does not
\* raise, and every recording's amp_rel and hypamp_rel are None afterwards.
C3_RelativeAmpOrNone ==
    [][ComputeRelativeAmp =>
         IF rheobase # None /\ Val(rheobase) > 0
         THEN \A i \in Indices :
                /\ recordings'[i].amp_rel =
                     {<<100 * Val(recordings[i].amp), Val(rheobase)>>}
                /\ recordings'[i].hypamp_rel =
                     {<<100 * Val(recordings[i].hypamp), Val(rheobase)>>}
         ELSE /\ recordings' = recordings
              /\ rheobase' = None
              /\ last'.warn
              /\ last'.exc = "none"
              /\ \A i \in Indices : /\ recordings'[i].amp_rel = None
                                    /\ recordings'[i].hypamp_rel = None]_vars

\* C4: in every reachable state, a recording has amp_rel or hypamp_rel only
\* while the cell's rheobase is not None and not zero.
C4_RelativeOnlyWithRheobase ==
    \A i \in Indices :
        (recordings[i].amp_rel # None \/ recordings[i].hypamp_rel # None)
            => (rheobase # None /\ Val(rheobase) # 0)

\* C5: read_recordings with a protocol name whose lower case is not a key of
\* the eCode registry raises KeyError and appends no recording, whatever the
\* metadata list and whatever the reader yields.
C5_UnregisteredRaises ==
    [][\A c \in ReadCalls :
         (ReadRecordingsCall(c) /\ Lower(c.protocol_name) \notin eCodes)
            => (last'.exc = "KeyError" /\ recordings' = recordings)]_vars


\* C6: interpret resolves each parameter from config_data, else reader_data,
\* else the trace, else a fallback constant; on a long enough trace it
\* completes without raising for every combination of present, absent and
\* null keys, leaving ton, toff, tend, amp, hypamp and dt non-None; when toff
\* is absent from config_data, toff gets its fallback and ton keeps its value.
C6_InterpretResolves ==
    (/\ sine.called
     /\ sine.reader_data["t"] # None
     /\ sine.reader_data["current"] # None
     /\ Val(sine.reader_data["t"]).n > ToffFallback)
    => LET c == sine.config_data
           r == sine.reader_data
           t == Val(r["t"])
           o == sine.result.obj
           ton == IF Has(c, "ton") THEN At(t, PyRound(Val(c["ton"]), t.dt))
                  ELSE At(t, TonFallback)
           toff == IF Has(c, "toff") THEN At(t, PyRound(Val(c["toff"]), t.dt))
                   ELSE At(t, ToffFallback)
       IN  /\ sine.result.exc = "none"
           /\ \A k \in {"ton", "toff", "tend", "amp", "hypamp", "dt"} :
                 o[k] # None
           /\ o.ton = {ton}
           /\ o.toff = {toff}
           /\ Has(c, "amp") => o.amp = c["amp"]
           /\ (~Has(c, "amp") /\ Has(r, "amp")) => o.amp = r["amp"]
           /\ Has(c, "hypamp") => o.hypamp = c["hypamp"]
           /\ (~Has(c, "hypamp") /\ Has(r, "hypamp")) => o.hypamp = r["hypamp"]

Interpreted ==
    /\ sine.called
    /\ sine.result.exc = "none"
    /\ sine.result.obj.ton # None

\* C7: every SineSpec whose interpret completed has 0 <= ton <= toff <= tend,
\* whatever ton and toff the metadata supplied.
C7_Ordered ==
    Interpreted =>
        LET o == sine.result.obj IN
        /\ 0 <= Val(o.ton)
        /\ Val(o.ton) <= Val(o.toff)
        /\ Val(o.toff) <= Val(o.tend)

\* C7 as amended: every SineSpec whose interpret completed has ton and toff
\* at samples of t, so 0 <= ton <= tend and 0 <= toff <= tend in the units of
\* t; ton <= toff holds when the metadata supplies both, with
\* 0 <= ton <= toff.
C7_WithinTraceOrderedAsSupplied ==
    Interpreted =>
        LET o == sine.result.obj
            c == sine.config_data
            t == Val(sine.reader_data["t"])
            AtSample(x) == x % t.dt = 0 /\ 0 <= x \div t.dt /\ x \div t.dt < t.n
        IN  /\ AtSample(Val(o.ton)) /\ AtSample(Val(o.toff))
            /\ 0 <= Val(o.ton) /\ Val(o.ton) <= Val(o.tend)
            /\ 0 <= Val(o.toff) /\ Val(o.toff) <= Val(o.tend)
            /\ (/\ Has(c, "ton") /\ Has(c, "toff")
                /\ 0 <= Val(c["ton"])
                /\ Val(c["ton"]) <= Val(c["toff"]))
               => Val(o.ton) <= Val(o.toff)

C7_RoundedAndOrdered ==
    /\ Interpreted
    /\ sine.result.obj.dt = {2}
    /\ Has(sine.config_data, "ton") /\ sine.config_data["ton"] = {1}
    /\ Has(sine.config_data, "toff") /\ sine.config_data["toff"] = {3}
    /\ sine.result.obj.ton = {0}
    /\ sine.result.obj.toff = {4}

\* C8: no Cell operation takes a recording back to an earlier stage
\* (spikecount back to None, an efeatures entry removed, amp_rel or hypamp_rel
\* back to None), and extract_efeatures called again with the same arguments
\* on the unchanged cell leaves every recording as the first call left it.
C8_ForwardAndIdempotent ==
    [][/\ Len(recordings') >= Len(recordings)
       /\ \A i \in Indices :
            /\ recordings[i].spikecount # None
                 => recordings'[i].spikecount # None
            /\ DOMAIN recordings[i].efeatures
                 \subseteq DOMAIN recordings'[i].efeatures
            /\ recordings[i].amp_rel # None => recordings'[i].amp_rel # None
            /\ recordings[i].hypamp_rel # None
                 => recordings'[i].hypamp_rel # None
       /\ (last'.op = "extract_efeatures" /\ last'.rerun)
            => recordings' = recordings]_vars

C8_RepeatedOnNormalized ==
    /\ last.op = "extract_efeatures"
    /\ last.rerun
    /\ \E i \in Indices :
         /\ recordings[i].protocol_name = last.args[1]
         /\ recordings[i].amp_rel # None
         /\ recordings[i].spikecount = {1}
         /\ DOMAIN recordings[i].efeatures # {}

\* C9: Cell.reader calls the custom reader when one is supplied; otherwise
\* the reader of the file name's format suffix, the name being v_file in
\* preference to filepath; otherwise it fails with the documented "format
\* unknown and no custom reader" exception and with no other exception.
C9_Dispatch ==
    dispatch.called =>
        LET c == dispatch.config_data
            name == IF "v_file" \in DOMAIN c THEN c["v_file"]
                    ELSE IF "filepath" \in DOMAIN c THEN c["filepath"]
                    ELSE None
            suffix == IF name = None THEN ""
                      ELSE Val(name)[Len(Val(name))]
        IN  IF dispatch.recording_reader
                THEN dispatch.result = "recording_reader"
            ELSE IF suffix = ".abf" THEN dispatch.result = "axon_reader"
            ELSE IF suffix = ".ibw" THEN dispatch.result = "igor_reader"
            ELSE IF suffix = ".nwb" THEN dispatch.result = "nwb_reader_BBP"
            ELSE dispatch.result = "Exception"

=============================================================================
